---- MODULE Spec2Model ----
(***************************************************************************)
(* Room relay of src/websocket-server.js: the two registries `rooms` and   *)
(* `clientRooms`, the per-connection handlers ('message', 'close'), the    *)
(* periodic clean-up timer, and the frames each handler sends.             *)
(*                                                                         *)
(* One action is one run of one handler (the process is single-threaded:   *)
(* a handler runs to completion before the next event is taken).           *)
(***************************************************************************)
EXTENDS Integers, Sequences, FiniteSets, TLC

\* ---------------------------------------------------------------- bounds
MaxConns == 3
MaxKeys == 2
MaxMsgs == 1
MaxChatConns == 2
MaxChatMsgs == 1
MaxTimerConns == 2
MaxTicks == 5

\* ------------------------------------------------------ program constants
HistoryLimit == 50
ReplayCount == 10
OneHourMs == 3600000
ReaperIntervalMs == 900000

\* ------------------------------------------------------------- vocabulary
Conns == 1..MaxConns
Keys == {"K" \o ToString(i) : i \in 1..MaxKeys}
Undefined == "undefined"
\* send_message payloads: text and sender each present or absent.
Payloads == {<<"hi", "bob">>, <<"hi", Undefined>>, <<Undefined, "bob">>}

VARIABLES rooms, clientRooms, readyState, now, nextId, ev, out,
          recorded, hasJoined, liveSeen

vars == <<rooms, clientRooms, readyState, now, nextId, ev, out,
          recorded, hasJoined, liveSeen>>

\* ------------------------------------------------------------ map helpers
MapSet(f, k, v) == [x \in (DOMAIN f) \cup {k} |-> IF x = k THEN v ELSE f[x]]
MapDelete(f, k) == [x \in (DOMAIN f) \ {k} |-> f[x]]
EmptyMap == [x \in {} |-> x]

\* Iteration order of a Set of connections, as a sequence.
ConnSeq(S) == SelectSeq([i \in 1..MaxConns |-> i], LAMBDA c : c \in S)

\* Array.prototype.slice(-n)
SliceLast(s, n) == IF Len(s) <= n THEN s ELSE SubSeq(s, Len(s) - n + 1, Len(s))

\* ----------------------------------------------------------------- frames
NoMsg == [id |-> 0, text |-> Undefined, timestamp |-> 0, sender |-> Undefined]

Frame(to, type, roomKey, count, error, body) ==
  [to |-> to, type |-> type, roomKey |-> roomKey, participantCount |-> count,
   error |-> error, body |-> body]

Simple(to, type) == Frame(to, type, Undefined, 0, Undefined, NoMsg)
ErrorFrame(to, type, error) == Frame(to, type, Undefined, 0, error, NoMsg)
CountFrame(to, type, count) == Frame(to, type, Undefined, count, Undefined, NoMsg)
MessageFrame(to, m) == Frame(to, "message", Undefined, 0, Undefined, m)

Event(type, conn, roomKey, text, sender) ==
  [type |-> type, conn |-> conn, roomKey |-> roomKey, text |-> text, sender |-> sender]

\* sendToClient: the frame is written only to an OPEN socket.
sendToClient(client, frame) ==
  IF readyState[client] = "OPEN" THEN <<frame>> ELSE <<>>

\* broadcastToRoom over the store `rms`: nothing when the key is absent,
\* otherwise one frame per OPEN member other than sender.
broadcastToRoom(rms, roomId, type, count, sender) ==
  IF roomId \notin DOMAIN rms THEN <<>>
  ELSE LET to == ConnSeq({c \in rms[roomId].clients :
                            c # sender /\ readyState[c] = "OPEN"})
       IN [i \in 1..Len(to) |-> CountFrame(to[i], type, count)]


\* ---------------------------------------------------------------- initial
Init ==
  /\ rooms = EmptyMap
  /\ clientRooms = [c \in Conns |-> Undefined]
  /\ readyState = [c \in Conns |-> "CLOSED"]
  /\ now = 0
  /\ nextId = 1
  /\ ev = Event("start", 0, Undefined, Undefined, Undefined)
  /\ out = <<>>
  /\ recorded = EmptyMap
  /\ hasJoined = [c \in Conns |-> FALSE]
  /\ liveSeen = [c \in Conns |-> {}]

\* A socket object is referenced by a registry.
Referenced(ws) ==
  \/ clientRooms[ws] # Undefined
  \/ \E k \in DOMAIN rooms : ws \in rooms[k].clients

\* wss.on('connection'): a new socket object, greeted with `connected`. A
\* handle is "CLOSED" while no live socket object carries it.
Connect(ws) ==
  /\ readyState[ws] = "CLOSED"
  /\ ~Referenced(ws)
  /\ readyState' = [readyState EXCEPT ![ws] = "OPEN"]
  /\ out' = <<Simple(ws, "connected")>>
  /\ ev' = Event("connection", ws, Undefined, Undefined, Undefined)
  /\ UNCHANGED <<rooms, clientRooms, now, nextId>>

\* The transport stops being OPEN before its 'close' event is dispatched.
TransportClosing(ws) ==
  /\ readyState[ws] = "OPEN"
  /\ readyState' = [readyState EXCEPT ![ws] = "CLOSING"]
  /\ out' = <<>>
  /\ ev' = Event("closing", ws, Undefined, Undefined, Undefined)
  /\ UNCHANGED <<rooms, clientRooms, now, nextId>>

\* ------------------------------------------------------------ create_room
\* generateRoomKey() is the input roomKey: any key, one in use included.
CreateRoom(ws, roomKey) ==
  /\ readyState[ws] = "OPEN"
  /\ rooms' = MapSet(rooms, roomKey,
                     [clients |-> {ws}, messages |-> <<>>, createdAt |-> now])
  /\ clientRooms' = [clientRooms EXCEPT ![ws] = roomKey]
  /\ out' = sendToClient(ws, Frame(ws, "room_created", roomKey, 0, Undefined, NoMsg))
  /\ ev' = Event("create_room", ws, roomKey, Undefined, Undefined)
  /\ UNCHANGED <<readyState, now, nextId>>

\* -------------------------------------------------------------- join_room
\* "Leave current room if in one": the store after lines 78-88.
JoinLeaveCurrent(ws) ==
  LET currentRoom == clientRooms[ws] IN
  IF currentRoom # Undefined /\ currentRoom \in DOMAIN rooms
  THEN LET left == rooms[currentRoom].clients \ {ws} IN
       IF Cardinality(left) = 0
       THEN MapDelete(rooms, currentRoom)
       ELSE [rooms EXCEPT ![currentRoom].clients = left]
  ELSE rooms

\* existingRoom after the leave and after existingRoom.clients.add(ws): the
\* object fetched at line 66, which the leave may have taken out of the store.
JoinedRoom(ws, joinKey) ==
  LET afterLeave == JoinLeaveCurrent(ws)
      existingRoom == IF joinKey \in DOMAIN afterLeave
                      THEN afterLeave[joinKey]
                      ELSE [rooms[joinKey] EXCEPT !.clients = @ \ {ws}]
  IN [existingRoom EXCEPT !.clients = @ \cup {ws}]

RecentHistoryOldest(messages) ==
  IF Len(messages) <= ReplayCount THEN messages ELSE SubSeq(messages, 1, ReplayCount)

\* messages.slice(-10)
RecentHistory(messages) == SliceLast(messages, ReplayCount)

Replay(ws, messages) ==
  [i \in 1..Len(RecentHistory(messages)) |-> MessageFrame(ws, RecentHistory(messages)[i])]

JoinNotFoundLeaves(ws) ==
  /\ out' = sendToClient(ws, ErrorFrame(ws, "join_error", "Room not found"))
  /\ rooms' = JoinLeaveCurrent(ws)
  /\ clientRooms' = [clientRooms EXCEPT ![ws] = Undefined]

JoinNotFound(ws) ==
  /\ out' = sendToClient(ws, ErrorFrame(ws, "join_error", "Room not found"))
  /\ UNCHANGED <<rooms, clientRooms>>

JoinFoundNotifiesFirst(ws, joinKey) ==
  LET afterLeave == JoinLeaveCurrent(ws)
      existingRoom == JoinedRoom(ws, joinKey)
      count == Cardinality(existingRoom.clients)
  IN /\ rooms' = IF joinKey \in DOMAIN afterLeave
                 THEN [afterLeave EXCEPT ![joinKey] = existingRoom]
                 ELSE afterLeave
     /\ clientRooms' = [clientRooms EXCEPT ![ws] = joinKey]
     /\ out' = sendToClient(ws, Frame(ws, "room_joined", joinKey, count, Undefined, NoMsg))
               \o broadcastToRoom(rooms', joinKey, "participant_joined", count, ws)
               \o Replay(ws, existingRoom.messages)

JoinFound(ws, joinKey) ==
  LET afterLeave == JoinLeaveCurrent(ws)
      existingRoom == JoinedRoom(ws, joinKey)
      count == Cardinality(existingRoom.clients)
  IN /\ rooms' = IF joinKey \in DOMAIN afterLeave
                 THEN [afterLeave EXCEPT ![joinKey] = existingRoom]
                 ELSE afterLeave
     /\ clientRooms' = [clientRooms EXCEPT ![ws] = joinKey]
     /\ out' = sendToClient(ws, Frame(ws, "room_joined", joinKey, count, Undefined, NoMsg))
               \o Replay(ws, existingRoom.messages)
               \o broadcastToRoom(rooms', joinKey, "participant_joined", count, ws)

JoinRoom(ws, joinKey) ==
  /\ readyState[ws] = "OPEN"
  /\ ev' = Event("join_room", ws, joinKey, Undefined, Undefined)
  /\ IF joinKey \notin DOMAIN rooms THEN JoinNotFound(ws) ELSE JoinFound(ws, joinKey)
  /\ UNCHANGED <<readyState, now, nextId>>

\* ----------------------------------------------------------- send_message
\* message.sender || 'Anonymous'
SenderOf(sender) == IF sender = Undefined \/ sender = "" THEN "Anonymous" ELSE sender

TrimKeepsOldest(messages) ==
  IF Len(messages) > HistoryLimit THEN SubSeq(messages, 1, HistoryLimit) ELSE messages

\* "Keep only last 50 messages"
Trim(messages) ==
  IF Len(messages) > HistoryLimit THEN SliceLast(messages, HistoryLimit) ELSE messages

\* room.clients.forEach(... sendToClient(client, message) ...)
Deliver(room, messageData) ==
  LET to == ConnSeq({c \in room.clients : readyState[c] = "OPEN"})
  IN [i \in 1..Len(to) |-> MessageFrame(to[i], messageData)]

\* message.text.substring(...) of the log line throws unless text is a string.
LogThrows(text) == text = Undefined

SendMessageNoBreak(ws, text, sender) ==
  LET roomId == clientRooms[ws]
      messageData == [id |-> nextId, text |-> text, timestamp |-> now,
                      sender |-> SenderOf(sender)]
  IN
  /\ readyState[ws] = "OPEN"
  /\ ev' = Event("send_message", ws, Undefined, text, sender)
  /\ IF roomId \notin DOMAIN rooms
     THEN /\ out' = (IF roomId = Undefined
                     THEN sendToClient(ws, ErrorFrame(ws, "error", "Not in a room"))
                     ELSE <<>>)
                    \o sendToClient(ws, ErrorFrame(ws, "error", "Room not found"))
          /\ UNCHANGED <<rooms, nextId>>
     ELSE /\ rooms' = [rooms EXCEPT ![roomId].messages = Trim(Append(@, messageData))]
          /\ nextId' = nextId + 1
          /\ out' = Deliver(rooms'[roomId], messageData)
                    \o (IF LogThrows(text)
                        THEN sendToClient(ws, ErrorFrame(ws, "error", "Invalid message format"))
                        ELSE <<>>)
  /\ UNCHANGED <<clientRooms, readyState, now>>

SendMessageUnrecorded(ws, text, sender) ==
  LET roomId == clientRooms[ws]
      messageData == [id |-> nextId, text |-> text, timestamp |-> now,
                      sender |-> SenderOf(sender)]
  IN
  /\ readyState[ws] = "OPEN"
  /\ ev' = Event("send_message", ws, Undefined, text, sender)
  /\ IF roomId = Undefined
     THEN /\ out' = sendToClient(ws, ErrorFrame(ws, "error", "Not in a room"))
          /\ UNCHANGED <<rooms, nextId>>
     ELSE IF roomId \notin DOMAIN rooms
     THEN /\ out' = sendToClient(ws, ErrorFrame(ws, "error", "Room not found"))
          /\ UNCHANGED <<rooms, nextId>>
     ELSE /\ rooms' = rooms
          /\ nextId' = nextId + 1
          /\ out' = Deliver(rooms[roomId], messageData)
                    \o (IF LogThrows(text)
                        THEN sendToClient(ws, ErrorFrame(ws, "error", "Invalid message format"))
                        ELSE <<>>)
  /\ UNCHANGED <<clientRooms, readyState, now>>

SendMessage(ws, text, sender) ==
  LET roomId == clientRooms[ws]
      messageData == [id |-> nextId, text |-> text, timestamp |-> now,
                      sender |-> SenderOf(sender)]
  IN
  /\ readyState[ws] = "OPEN"
  /\ ev' = Event("send_message", ws, Undefined, text, sender)
  /\ IF roomId = Undefined
     THEN /\ out' = sendToClient(ws, ErrorFrame(ws, "error", "Not in a room"))
          /\ UNCHANGED <<rooms, nextId>>
     ELSE IF roomId \notin DOMAIN rooms
     THEN /\ out' = sendToClient(ws, ErrorFrame(ws, "error", "Room not found"))
          /\ UNCHANGED <<rooms, nextId>>
     ELSE /\ rooms' = [rooms EXCEPT ![roomId].messages = Trim(Append(@, messageData))]
          /\ nextId' = nextId + 1
          /\ out' = Deliver(rooms'[roomId], messageData)
                    \o (IF LogThrows(text)
                        THEN sendToClient(ws, ErrorFrame(ws, "error", "Invalid message format"))
                        ELSE <<>>)
  /\ UNCHANGED <<clientRooms, readyState, now>>

\* ------------------------------------------------------------- leave_room
LeaveRoomStoreKeepsEmpty(ws) ==
  LET leaveRoomId == clientRooms[ws] IN
  IF leaveRoomId \in DOMAIN rooms
  THEN [rooms EXCEPT ![leaveRoomId].clients = @ \ {ws}]
  ELSE rooms

\* The store after lines 170-185 (unchanged when the bound key has no room).
LeaveRoomStore(ws) ==
  LET leaveRoomId == clientRooms[ws] IN
  IF leaveRoomId \in DOMAIN rooms
  THEN LET left == rooms[leaveRoomId].clients \ {ws} IN
       IF Cardinality(left) = 0
       THEN MapDelete(rooms, leaveRoomId)
       ELSE [rooms EXCEPT ![leaveRoomId].clients = left]
  ELSE rooms

\* participant_left to the members that remain after clients.delete(ws);
\* the frames are sent before the empty room is deleted.
LeftNotice(ws, roomId) ==
  IF roomId \in DOMAIN rooms
  THEN LET after == [rooms EXCEPT ![roomId].clients = @ \ {ws}]
       IN broadcastToRoom(after, roomId, "participant_left",
                          Cardinality(after[roomId].clients), ws)
  ELSE <<>>

LeaveRoomAlwaysReplies(ws) ==
  LET leaveRoomId == clientRooms[ws] IN
  /\ readyState[ws] = "OPEN"
  /\ ev' = Event("leave_room", ws, Undefined, Undefined, Undefined)
  /\ rooms' = LeaveRoomStore(ws)
  /\ clientRooms' = [clientRooms EXCEPT ![ws] = Undefined]
  /\ out' = LeftNotice(ws, leaveRoomId) \o sendToClient(ws, Simple(ws, "room_left"))
  /\ UNCHANGED <<readyState, now, nextId>>

LeaveRoom(ws) ==
  LET leaveRoomId == clientRooms[ws] IN
  /\ readyState[ws] = "OPEN"
  /\ ev' = Event("leave_room", ws, Undefined, Undefined, Undefined)
  /\ IF leaveRoomId # Undefined
     THEN /\ rooms' = LeaveRoomStore(ws)
          /\ clientRooms' = [clientRooms EXCEPT ![ws] = Undefined]
          /\ out' = LeftNotice(ws, leaveRoomId) \o sendToClient(ws, Simple(ws, "room_left"))
     ELSE /\ out' = <<>>
          /\ UNCHANGED <<rooms, clientRooms>>
  /\ UNCHANGED <<readyState, now, nextId>>

\* ------------------------------------------------- ping, default, catch
Ping(ws) ==
  /\ readyState[ws] = "OPEN"
  /\ ev' = Event("ping", ws, Undefined, Undefined, Undefined)
  /\ out' = sendToClient(ws, Simple(ws, "pong"))
  /\ UNCHANGED <<rooms, clientRooms, readyState, now, nextId>>

UnknownType(ws) ==
  /\ readyState[ws] = "OPEN"
  /\ ev' = Event("unknown", ws, Undefined, Undefined, Undefined)
  /\ out' = sendToClient(ws, ErrorFrame(ws, "error", "Unknown message type"))
  /\ UNCHANGED <<rooms, clientRooms, readyState, now, nextId>>

\* JSON.parse throws, or the parsed value is null.
Malformed(ws) ==
  /\ readyState[ws] = "OPEN"
  /\ ev' = Event("malformed", ws, Undefined, Undefined, Undefined)
  /\ out' = sendToClient(ws, ErrorFrame(ws, "error", "Invalid message format"))
  /\ UNCHANGED <<rooms, clientRooms, readyState, now, nextId>>

\* ---------------------------------------------------------- ws.on('close')
\* The store after lines 220-235.
CloseStore(ws) ==
  LET roomId == clientRooms[ws] IN
  IF roomId \in DOMAIN rooms
  THEN LET left == rooms[roomId].clients \ {ws} IN
       IF Cardinality(left) = 0
       THEN MapDelete(rooms, roomId)
       ELSE [rooms EXCEPT ![roomId].clients = left]
  ELSE rooms

OnClose(ws) ==
  LET roomId == clientRooms[ws] IN
  /\ readyState[ws] \in {"OPEN", "CLOSING"}
  /\ readyState' = [readyState EXCEPT ![ws] = "CLOSED"]
  /\ ev' = Event("close", ws, Undefined, Undefined, Undefined)
  /\ IF roomId # Undefined
     THEN /\ rooms' = CloseStore(ws)
          /\ clientRooms' = [clientRooms EXCEPT ![ws] = Undefined]
          /\ out' = LeftNotice(ws, roomId)
     ELSE /\ out' = <<>>
          /\ UNCHANGED <<rooms, clientRooms>>
  /\ UNCHANGED <<now, nextId>>

\* ------------------------------------------------------------------ timer
\* Wall-clock time advances by one timer period.
Tick ==
  /\ now' = now + ReaperIntervalMs
  /\ ev' = Event("tick", 0, Undefined, Undefined, Undefined)
  /\ out' = <<>>
  /\ UNCHANGED <<rooms, clientRooms, readyState, nextId>>

SweptIgnoringMembers == {k \in DOMAIN rooms : rooms[k].createdAt < now - OneHourMs}

\* The rooms the periodic clean-up deletes.
Swept == {k \in DOMAIN rooms :
            Cardinality(rooms[k].clients) = 0 /\ rooms[k].createdAt < now - OneHourMs}

Reaper ==
  /\ rooms' = [k \in (DOMAIN rooms) \ Swept |-> rooms[k]]
  /\ ev' = Event("reaper", 0, Undefined, Undefined, Undefined)
  /\ out' = <<>>
  /\ UNCHANGED <<clientRooms, readyState, now, nextId>>

\* --------------------------------------------------------------- history
\* History variables, written by an observer of the step just taken and read
\* by no handler:
\*   recorded[k]  every message pushed into the room object now stored under k
\*   hasJoined[c] socket c has been answered room_joined since it connected
\*   liveSeen[c]  ids of the chat messages delivered live to c after that
ChatIds(frames, c) ==
  {frames[i].body.id : i \in {j \in 1..Len(frames) :
                                 frames[j].to = c /\ frames[j].type = "message"}}

Accepted == ev'.type = "send_message" /\ nextId' # nextId

Observe ==
  /\ recorded' =
       [k \in DOMAIN rooms' |->
          IF ev'.type = "create_room" /\ ev'.roomKey = k THEN <<>>
          ELSE IF Accepted /\ clientRooms[ev'.conn] = k
               THEN Append(recorded[k],
                           [id |-> nextId, text |-> ev'.text, timestamp |-> now,
                            sender |-> SenderOf(ev'.sender)])
               ELSE recorded[k]]
  /\ hasJoined' =
       [c \in Conns |->
          IF ev'.type = "connection" /\ ev'.conn = c THEN FALSE
          ELSE IF ev'.type = "join_room" /\ ev'.conn = c /\ ev'.roomKey \in DOMAIN rooms
               THEN TRUE ELSE hasJoined[c]]
  /\ liveSeen' =
       [c \in Conns |->
          IF ev'.type = "connection" /\ ev'.conn = c THEN {}
          ELSE IF Accepted /\ hasJoined[c] THEN liveSeen[c] \cup ChatIds(out', c)
               ELSE liveSeen[c]]

Unobserved == UNCHANGED <<recorded, hasJoined, liveSeen>>

\* ---------------------------------------------------------- specification
\* Membership: every handler that touches the registries, on three sockets.
Next ==
  \/ \E ws \in Conns : Connect(ws) /\ Unobserved
  \/ \E ws \in Conns : TransportClosing(ws) /\ Unobserved
  \/ \E ws \in Conns : OnClose(ws) /\ Unobserved
  \/ \E ws \in Conns, roomKey \in Keys : CreateRoom(ws, roomKey) /\ Unobserved
  \/ \E ws \in Conns, joinKey \in Keys \cup {Undefined} :
        JoinRoom(ws, joinKey) /\ Unobserved
  \/ \E ws \in Conns, p \in Payloads :
        nextId <= MaxMsgs /\ SendMessage(ws, p[1], p[2]) /\ Unobserved
  \/ \E ws \in Conns : LeaveRoom(ws) /\ Unobserved
  \/ Reaper /\ Unobserved

Spec == Init /\ [][Next]_vars

\* Chat: the message handlers on two sockets, observed, started in a room
\* whose creator has already sent n messages.
ChatConns == 1..MaxChatConns
HistLens == {0, ReplayCount - 1, ReplayCount, ReplayCount + 1,
             HistoryLimit - 1, HistoryLimit}

\* What n accepted send_message frames {text: "hi"} leave in a new room.
Prefill(n) ==
  [i \in 1..n |-> [id |-> i - n, text |-> "hi", timestamp |-> 0,
                   sender |-> SenderOf(Undefined)]]

InitChat ==
  \E n \in HistLens :
    /\ rooms = MapSet(EmptyMap, "K1",
                      [clients |-> {1}, messages |-> Prefill(n), createdAt |-> 0])
    /\ clientRooms = [c \in Conns |-> IF c = 1 THEN "K1" ELSE Undefined]
    /\ readyState = [c \in Conns |-> IF c = 1 THEN "OPEN" ELSE "CLOSED"]
    /\ now = 0
    /\ nextId = 1
    /\ ev = Event("start", 0, Undefined, Undefined, Undefined)
    /\ out = <<>>
    /\ recorded = MapSet(EmptyMap, "K1", Prefill(n))
    /\ hasJoined = [c \in Conns |-> FALSE]
    /\ liveSeen = [c \in Conns |-> {}]

NextChat ==
  \/ \E ws \in ChatConns : Connect(ws) /\ Observe
  \/ \E ws \in ChatConns : TransportClosing(ws) /\ Observe
  \/ \E ws \in ChatConns : OnClose(ws) /\ Observe
  \/ \E ws \in ChatConns, roomKey \in Keys : CreateRoom(ws, roomKey) /\ Observe
  \/ \E ws \in ChatConns, joinKey \in Keys : JoinRoom(ws, joinKey) /\ Observe
  \/ \E ws \in ChatConns, p \in Payloads :
        nextId <= MaxChatMsgs /\ SendMessage(ws, p[1], p[2]) /\ Observe
  \/ \E ws \in ChatConns : LeaveRoom(ws) /\ Observe
  \/ \E ws \in ChatConns : Ping(ws) /\ Observe
  \/ \E ws \in ChatConns : UnknownType(ws) /\ Observe
  \/ \E ws \in ChatConns : Malformed(ws) /\ Observe

SpecChat == InitChat /\ [][NextChat]_vars

\* ------------------------------------------------------------- the timer
\* The handlers that create, fill and empty rooms, interleaved with the
\* passing of time and the runs of the periodic clean-up.
TimerConns == 1..MaxTimerConns

NextTimer ==
  \/ \E ws \in TimerConns : Connect(ws) /\ Unobserved
  \/ \E ws \in TimerConns : TransportClosing(ws) /\ Unobserved
  \/ \E ws \in TimerConns : OnClose(ws) /\ Unobserved
  \/ \E ws \in TimerConns, roomKey \in Keys : CreateRoom(ws, roomKey) /\ Unobserved
  \/ \E ws \in TimerConns, joinKey \in Keys : JoinRoom(ws, joinKey) /\ Unobserved
  \/ \E ws \in TimerConns : LeaveRoom(ws) /\ Unobserved
  \/ now < MaxTicks * ReaperIntervalMs /\ Tick /\ Unobserved
  \/ Reaper /\ Unobserved

SpecTimer == Init /\ [][NextTimer]_vars

\* ------------------------------------------------------------ properties
Min(a, b) == IF a <= b THEN a ELSE b

\* The step just taken, read off ev': its handler, socket and key.
Did(type) == ev'.type = type
FramesTo(frames, c, type) == SelectSeq(frames, LAMBDA f : f.to = c /\ f.type = type)
ChatFrames(frames) == SelectSeq(frames, LAMBDA f : f.type = "message")
JoinedStep == Did("join_room") /\ ev'.roomKey \in DOMAIN rooms

\* The leave_room side effects on room old, seen across the step.
LeftSideEffects(ws, old) ==
  old \in DOMAIN rooms =>
    LET remaining == rooms[old].clients \ {ws} IN
    /\ old \in DOMAIN rooms' => ws \notin rooms'[old].clients
    /\ remaining = {} => old \notin DOMAIN rooms'
    /\ \A c \in remaining :
         readyState[c] = "OPEN" =>
           FramesTo(out', c, "participant_left") =
             <<CountFrame(c, "participant_left", Cardinality(remaining))>>

\* C1: the Room Store and the Connection-Room Index agree: c is in the
\* member set of the room with key k iff c is bound to k.
C1_RegistriesAgree ==
  \A c \in Conns, k \in Keys :
    (k \in DOMAIN rooms /\ c \in rooms[k].clients) <=> clientRooms[c] = k

\* C2: create_room from InRoom(old) runs the leave_room side effects on old
\* first, and afterwards the connection is a member of the new room only.
C2_CreateLeavesFirst ==
  [][Did("create_room") /\ clientRooms[ev'.conn] # Undefined =>
       /\ LeftSideEffects(ev'.conn, clientRooms[ev'.conn])
       /\ \A k \in DOMAIN rooms' :
            ev'.conn \in rooms'[k].clients <=> k = clientRooms'[ev'.conn]]_vars

\* C3: whenever join_room(targetKey) is answered with room_joined, the room
\* targetKey is in the store afterwards, the joiner is a member of it and is
\* bound to targetKey.
C3_JoinedRoomExists ==
  [][Did("join_room") /\ Len(FramesTo(out', ev'.conn, "room_joined")) > 0 =>
       /\ ev'.roomKey \in DOMAIN rooms'
       /\ ev'.conn \in rooms'[ev'.roomKey].clients
       /\ clientRooms'[ev'.conn] = ev'.roomKey]_vars

\* C4: every room present in the store has at least one member.
C4_NoEmptyRoom == \A k \in DOMAIN rooms : rooms[k].clients # {}

\* A leave_room has just been answered and emptied the store while another
\* socket is still connected.
C4_Witness ==
  /\ ev.type = "leave_room"
  /\ Len(FramesTo(out, ev.conn, "room_left")) = 1
  /\ DOMAIN rooms = {}
  /\ \E c \in Conns \ {ev.conn} : readyState[c] = "OPEN"

\* C5: after the close event of a connection is handled it is a member of no
\* room and has no binding, the remaining members of its room were sent
\* participant_left with the new count, the room is gone if it became empty,
\* and nothing is sent to the closed connection.
C5_CloseLeaves ==
  [][Did("close") =>
       /\ \A k \in DOMAIN rooms' : ev'.conn \notin rooms'[k].clients
       /\ clientRooms'[ev'.conn] = Undefined
       /\ clientRooms[ev'.conn] # Undefined =>
            LeftSideEffects(ev'.conn, clientRooms[ev'.conn])
       /\ \A i \in 1..Len(out') : out'[i].to # ev'.conn]_vars

\* C6: create_room never overwrites: every room in the store before the event
\* is still there with the same members and history, and the returned key is
\* the key of no room that existed at that moment.
C6_CreateNeverOverwrites ==
  [][Did("create_room") =>
       /\ ev'.roomKey \notin DOMAIN rooms
       /\ \A k \in DOMAIN rooms :
            /\ k \in DOMAIN rooms'
            /\ rooms'[k].clients = rooms[k].clients
            /\ rooms'[k].messages = rooms[k].messages]_vars

\* C7: a connection in InRoom(oldKey) that joins a different existing room
\* leaves oldKey with the leave_room side effects: removed from its members,
\* participant_left with the new count to every remaining open member, and
\* oldKey deleted if it became empty. Stated for joins taken from a state in
\* which the two registries agree.
C7_JoinLeavesOld ==
  [][C1_RegistriesAgree /\ JoinedStep /\ clientRooms[ev'.conn] # Undefined
       /\ clientRooms[ev'.conn] # ev'.roomKey =>
       LeftSideEffects(ev'.conn, clientRooms[ev'.conn])]_vars

\* C8: join_room with a key that is not in the store sends join_error
\* (success false) to the requester and nothing to anyone else, and leaves
\* the store and the index as they were.
C8_JoinUnknownKey ==
  [][Did("join_room") /\ ev'.roomKey \notin DOMAIN rooms =>
       /\ out' = <<ErrorFrame(ev'.conn, "join_error", "Room not found")>>
       /\ rooms' = rooms
       /\ clientRooms' = clientRooms]_vars

\* join_error has just been sent to a socket that is still bound to, and a
\* member of, its prior room.
C8_Witness ==
  /\ ev.type = "join_room"
  /\ out = <<ErrorFrame(ev.conn, "join_error", "Room not found")>>
  /\ clientRooms[ev.conn] \in DOMAIN rooms
  /\ ev.conn \in rooms[clientRooms[ev.conn]].clients

\* C9: each room's history holds at most 50 messages and is exactly the last
\* min(50, n) of the n messages recorded in that room, in recording order.
C9_HistoryBounded ==
  \A k \in DOMAIN rooms :
    LET h == rooms[k].messages
        n == Len(recorded[k])
    IN /\ Len(h) <= HistoryLimit
       /\ Len(h) = Min(HistoryLimit, n)
       /\ \A i \in 1..Len(h) : h[i] = recorded[k][n - Len(h) + i]

\* A send_message has just pushed the 51st message of a room.
C9_Witness ==
  /\ ev.type = "send_message"
  /\ \E k \in DOMAIN rooms :
       Len(recorded[k]) > HistoryLimit /\ Len(rooms[k].messages) = HistoryLimit

\* The replay of a successful join: the chat frames of the step are the last
\* min(10, length) messages of the joined room's history, oldest first, all
\* addressed to the joiner.
ReplayExact ==
  LET h == rooms[ev'.roomKey].messages
      n == Min(ReplayCount, Len(h))
      frames == ChatFrames(out')
  IN /\ Len(frames) = n
     /\ \A i \in 1..n : frames[i] = MessageFrame(ev'.conn, h[Len(h) - n + i])

\* An accepted send_message delivers its message, carrying a new id, exactly
\* once to each OPEN member of the sender's room and to nobody else.
DeliveredOnce ==
  LET roomId == clientRooms[ev'.conn]
      m == rooms'[roomId].messages[Len(rooms'[roomId].messages)]
  IN /\ m.id = nextId
     /\ \A k \in DOMAIN rooms : \A i \in 1..Len(rooms[k].messages) :
          rooms[k].messages[i].id # m.id
     /\ \A c \in Conns :
          FramesTo(out', c, "message") =
            IF c \in rooms[roomId].clients /\ readyState[c] = "OPEN"
            THEN <<MessageFrame(c, m)>> ELSE <<>>

\* C10 as amended: the replay of a successful join is exact, each message
\* sent afterwards is delivered live exactly once to every open member, and
\* a message a connection has received live reaches it again only as the
\* replay of a later join_room sent by that same connection.
C10_ReplayThenLive ==
  [][/\ JoinedStep => ReplayExact
     /\ Accepted => DeliveredOnce
     /\ \A c \in Conns :
          ChatIds(out', c) \cap liveSeen[c] # {} => JoinedStep /\ ev'.conn = c]_vars

\* C10 as stated: the replay of a successful join is exact, and no message
\* sent after a connection's join reaches it both live and as replay.
C10_NeverReplayAndLive ==
  [][/\ JoinedStep => ReplayExact
     /\ Accepted => DeliveredOnce
     /\ \A c \in Conns : ChatIds(out', c) \cap liveSeen[c] = {}]_vars

\* A join has just replayed exactly 10 messages of a longer history.
C10_Witness ==
  /\ ev.type = "join_room"
  /\ Len(FramesTo(out, ev.conn, "room_joined")) = 1
  /\ Len(ChatFrames(out)) = ReplayCount
  /\ ev.roomKey \in DOMAIN rooms
  /\ Len(rooms[ev.roomKey].messages) > ReplayCount

\* Every OPEN socket of `members` other than `except` got exactly one frame
\* of this type in the step, with this count, and `except` got none.
NoticeReached(members, except, type, count) ==
  /\ \A c \in members \ {except} :
       readyState[c] = "OPEN" =>
         FramesTo(out', c, type) = <<CountFrame(c, type, count)>>
  /\ FramesTo(out', except, type) = <<>>

\* C11: an accepted chat message is delivered to every open member of the
\* sender's room, the sender included; participant_joined and
\* participant_left reach every open member of the room except the
\* connection whose join, leave or close triggered them, which gets none.
C11_BroadcastReach ==
  [][/\ Accepted =>
          /\ Len(FramesTo(out', ev'.conn, "message")) = 1
          /\ \A c \in rooms[clientRooms[ev'.conn]].clients :
               readyState[c] = "OPEN" => Len(FramesTo(out', c, "message")) = 1
     /\ JoinedStep /\ ev'.roomKey \in DOMAIN rooms' =>
          NoticeReached(rooms'[ev'.roomKey].clients, ev'.conn, "participant_joined",
                        Cardinality(rooms'[ev'.roomKey].clients))
     /\ (Did("leave_room") \/ Did("close")) /\ clientRooms[ev'.conn] \in DOMAIN rooms =>
          NoticeReached(rooms[clientRooms[ev'.conn]].clients, ev'.conn,
                        "participant_left",
                        Cardinality(rooms[clientRooms[ev'.conn]].clients \ {ev'.conn}))]_vars

\* C12: leave_room is idempotent: a leave_room that directly follows a
\* leave_room of the same connection sends no participant_left, no room_left
\* and no error, and leaves the store and the index as the first left them.
C12_LeaveIdempotent ==
  [][Did("leave_room") /\ ev.type = "leave_room" /\ ev.conn = ev'.conn =>
       /\ out' = <<>>
       /\ rooms' = rooms
       /\ clientRooms' = clientRooms]_vars

\* A leave_room has just been handled for an unbound socket, silently, while
\* another socket is in a room.
C12_Witness ==
  /\ ev.type = "leave_room"
  /\ out = <<>>
  /\ clientRooms[ev.conn] = Undefined
  /\ \E c \in Conns \ {ev.conn} :
       clientRooms[c] \in DOMAIN rooms /\ readyState[c] = "OPEN"

\* C13: send_message from a connection bound to no room sends one error to
\* that connection and does nothing else: no history grows, nobody else is
\* sent anything, store and index are unchanged.
C13_SendNotInRoom ==
  [][Did("send_message") /\ clientRooms[ev'.conn] = Undefined =>
       /\ out' = <<ErrorFrame(ev'.conn, "error", "Not in a room")>>
       /\ rooms' = rooms
       /\ clientRooms' = clientRooms
       /\ nextId' = nextId]_vars

\* The error has just been sent to an unbound sender while another socket is
\* an open member of a room.
C13_Witness ==
  /\ ev.type = "send_message"
  /\ out = <<ErrorFrame(ev.conn, "error", "Not in a room")>>
  /\ clientRooms[ev.conn] = Undefined
  /\ \E k \in DOMAIN rooms : \E c \in rooms[k].clients \ {ev.conn} :
       readyState[c] = "OPEN"

\* C14: a frame answered with the invalid-format error changed no state and
\* reached nobody else: store (member sets and histories) and index are as
\* before, and every frame of the step went to the sender.
C14_InvalidFormatNoEffect ==
  [][(\E i \in 1..Len(out') :
        out'[i] = ErrorFrame(ev'.conn, "error", "Invalid message format")) =>
       /\ rooms' = rooms
       /\ clientRooms' = clientRooms
       /\ \A i \in 1..Len(out') : out'[i].to = ev'.conn]_vars

\* The previous step was a successful join_room.
JoinedBefore == ev.type = "join_room" /\ Len(out) > 0 /\ out[1].type = "room_joined"

\* Every room_joined and participant_joined frame of the step carries the
\* number of members the joined room has in the store after the step.
CountsCurrent ==
  ev'.roomKey \in DOMAIN rooms' =>
    \A i \in 1..Len(out') :
      out'[i].type \in {"room_joined", "participant_joined"} =>
        out'[i].participantCount = Cardinality(rooms'[ev'.roomKey].clients)

\* C15: a join_room of an existing room replies and notifies with the member
\* count the room has right after that join, and when two distinct
\* connections join the same existing room one after the other, both are
\* members of it once both joins are handled.
C15_JoinCounts ==
  [][/\ JoinedStep => CountsCurrent
     /\ JoinedBefore /\ Did("join_room") /\ ev'.roomKey = ev.roomKey
          /\ ev'.conn # ev.conn =>
          /\ ev.roomKey \in DOMAIN rooms'
          /\ {ev.conn, ev'.conn} \subseteq rooms'[ev.roomKey].clients]_vars

\* A room created more than one hour before the present.
Old(k) == rooms[k].createdAt < now - OneHourMs

\* C16: whatever create_room, join_room, leave_room and close events it is
\* interleaved with, a run of the clean-up removes exactly the rooms that have
\* no member and are older than one hour, leaves every other room as it was,
\* and so never removes a room that has a member.
C16_ReaperExact ==
  [][Did("reaper") =>
       /\ DOMAIN rooms' =
            {k \in DOMAIN rooms : ~(rooms[k].clients = {} /\ Old(k))}
       /\ \A k \in DOMAIN rooms' : rooms'[k] = rooms[k]]_vars

\* The clean-up has just run over a room older than one hour that has an
\* open member, next to a younger room.
C16_Witness ==
  /\ ev.type = "reaper"
  /\ \E k \in DOMAIN rooms :
       /\ Old(k)
       /\ \E c \in rooms[k].clients : readyState[c] = "OPEN"
  /\ \E k \in DOMAIN rooms : ~Old(k)

\* C17: the frames of a successful join_room are ordered: room_joined to the
\* joiner, then the replayed messages, all to the joiner, then the
\* participant_joined notices, all to other members; nothing else is sent.
C17_JoinOutputOrder ==
  [][JoinedStep =>
       \E n \in 0..ReplayCount :
         /\ Len(out') >= 1 + n
         /\ out'[1].type = "room_joined" /\ out'[1].to = ev'.conn
         /\ \A i \in 2..(1 + n) :
              out'[i].type = "message" /\ out'[i].to = ev'.conn
         /\ \A i \in (2 + n)..Len(out') :
              out'[i].type = "participant_joined" /\ out'[i].to # ev'.conn]_vars

\* A join has just produced all three kinds of frame.
C17_Witness ==
  /\ ev.type = "join_room"
  /\ Len(out) >= 3
  /\ out[1].type = "room_joined"
  /\ out[2].type = "message"
  /\ out[Len(out)].type = "participant_joined"

\* The previous step was a send_message that delivered a chat message.
SentBefore == ev.type = "send_message" /\ ChatFrames(out) # <<>>

\* C18: the message of an accepted send_message is the newest entry of the
\* room's history, trimmed to 50, by the time any member has it, and a join
\* of that room handled right after the send replays it to the joiner as the
\* newest of the replayed messages.
C18_RecordedBeforeDelivered ==
  [][/\ Accepted =>
          LET h == rooms'[clientRooms[ev'.conn]].messages IN
          /\ Len(h) = Min(HistoryLimit, Len(rooms[clientRooms[ev'.conn]].messages) + 1)
          /\ \A i \in 1..Len(out') :
               out'[i].type = "message" => out'[i].body = h[Len(h)]
     /\ SentBefore /\ JoinedStep /\ ev'.roomKey = clientRooms[ev.conn] =>
          LET replay == ChatFrames(out') IN
          /\ replay # <<>>
          /\ replay[Len(replay)] = MessageFrame(ev'.conn, ChatFrames(out)[1].body)]_vars

\* A join has just replayed the message that a send_message delivered live
\* before it, out of a history that was full when the message arrived.
C18_Witness ==
  /\ ev.type = "join_room"
  /\ ev.roomKey \in DOMAIN rooms
  /\ Len(rooms[ev.roomKey].messages) = HistoryLimit
  /\ Len(ChatFrames(out)) = ReplayCount
  /\ ChatFrames(out)[ReplayCount].body.id = 1
  /\ 1 \in liveSeen[ev.conn]

\* The room a frame of the step belongs to: the joined room for a join_room,
\* the room the acting connection was bound to for every other event.
RoomOfStep == IF Did("join_room") THEN ev'.roomKey ELSE clientRooms[ev'.conn]

\* C19: room isolation: every chat message, live or replayed, and every
\* participant notice goes only to connections that are bound, at the time
\* of delivery, to the room it belongs to.
C19_RoomIsolation ==
  [][\A i \in 1..Len(out') :
       out'[i].type \in {"message", "participant_joined", "participant_left"} =>
         clientRooms'[out'[i].to] = RoomOfStep]_vars

\* C20: abandoned rooms are reclaimed: a room older than one hour does not
\* survive a run of the clean-up made while every connection is closed.
C20_AbandonedReclaimed ==
  [][Did("reaper") /\ (\A c \in Conns : readyState[c] = "CLOSED") =>
       \A k \in DOMAIN rooms' : ~Old(k)]_vars

====
